---- MODULE Spec2Model ----
(***************************************************************************)
(* Tradelog client: the Analytics page (loss metrics over the fetched      *)
(* trade list) and the TradingPlan page (goal progress).                   *)
(*                                                                         *)
(* JavaScript values are modelled as follows.  A nullable field is Null    *)
(* (the empty tuple) or a one-element tuple <<v>>.  An array is a          *)
(* sequence; the arrays a function holds are the fields of a small heap    *)
(* record, so that an in-place Array.prototype.sort is an update of the    *)
(* array it is called on and of nothing else.  Money is counted in whole   *)
(* units, trade timestamps in whole days after the epoch, the clock of the *)
(* TradingPlan page in ticks, DayLength of them to the day.  A number a    *)
(* division produced is an exact fraction num / den.                       *)
(***************************************************************************)
EXTENDS Integers, Sequences, FiniteSets, TLC

VARIABLES
    stats,        \* Analytics: useState(null)
    trades,       \* Analytics: useState([])
    tradesRes,    \* Analytics: the body of the /trades response received
    loading,      \* Analytics: useState(true)
    lossMetrics,  \* Analytics: the lossMetrics of the last render
    view,         \* Analytics: what the last render returned
    rerendered,   \* Analytics: the page view has been rendered again
    page,         \* Analytics: what the page view of the last render shows
    goals,        \* TradingPlan: useState([])
    planStats,    \* TradingPlan: useState(null)
    planLoading,  \* TradingPlan: useState(true)
    planView,     \* TradingPlan: what the last render returned
    clock,        \* TradingPlan: the time value new Date() reads
    statusAt,     \* TradingPlan: the clock as getGoalStatus last read it
    utcOffset,    \* TradingPlan: the browser's zone, ticks ahead of UTC
    fetchOutcome, \* Analytics: how the two requests of fetchData settled
    planOutcome,  \* TradingPlan: how the two requests of fetchData settled
    serverGoals,  \* TradingPlan: the goals the server holds
    fetches,      \* TradingPlan: the fetchData calls in the order made, each
                  \* with the response the server gave and its state
    dashStats,    \* Dashboard: useState(null)
    equityCurve,  \* Dashboard: useState([])
    dashLoading,  \* Dashboard: useState(true)
    dashOutcome,  \* Dashboard: how the two requests of fetchData settled
    listTrades,   \* Trades: useState([]), trades
    filteredTrades, \* Trades: useState([])
    searchTerm,   \* Trades: useState('')
    listLoading,  \* Trades: useState(true)
    listOutcome,  \* Trades: how the request of fetchTrades settled
    detailTrade,  \* TradeDetail: useState(null), trade
    detailLoading, \* TradeDetail: useState(true)
    detailOutcome, \* TradeDetail: how the request of fetchTrade settled
    mounted,      \* the page the router has mounted
    token,        \* localStorage: the item 'token'
    storedUser,   \* localStorage: the item 'user'
    isAuthenticated, \* App: useState(false)
    appLoading,   \* App: useState(true)
    location,     \* the router's current path
    authForm,     \* Login, Register, Settings: the loading flag of each
    authRequest,  \* Login, Register, Settings: the request of each
    addLoading,   \* AddTrade: useState(false), loading
    uploadingScreenshot, \* AddTrade: useState(false)
    screenshot,   \* AddTrade: useState(null)
    addStep,      \* AddTrade: the await handleSubmit is suspended at, and
                  \* the screenshot its closure holds
    serverTrades, \* AddTrade: the trades the server holds
    uploads,      \* AddTrade: the screenshot uploads requested
    addToast      \* AddTrade: the toasts handleSubmit has shown

analyticsVars ==
    <<stats, trades, tradesRes, loading, lossMetrics, view, rerendered, page,
      fetchOutcome>>
planVars ==
    <<goals, planStats, planLoading, planView, clock, statusAt, utcOffset,
      planOutcome>>
raceVars == <<serverGoals, fetches>>
dashVars == <<dashStats, equityCurve, dashLoading, dashOutcome>>
listVars ==
    <<listTrades, filteredTrades, searchTerm, listLoading, listOutcome>>
detailVars == <<detailTrade, detailLoading, detailOutcome>>
authVars ==
    <<token, storedUser, isAuthenticated, appLoading, location, authForm,
      authRequest>>
addVars ==
    <<addLoading, uploadingScreenshot, screenshot, addStep, serverTrades,
      uploads, addToast>>
\* All but the variables of Analytics and of TradingPlan.
shellVars ==
    <<raceVars, dashVars, listVars, detailVars, authVars, addVars, mounted>>
vars == <<analyticsVars, planVars, shellVars>>

-----------------------------------------------------------------------------
(* JavaScript primitives                                                   *)

Null == <<>>

Some(v) == <<v>>

\* ToNumber: null converts to 0, a number to itself.
ToNumber(v) == IF v = Null THEN 0 ELSE v[1]

\* The time value of new Date(v): new Date(null) is the epoch, time value 0;
\* an ISO timestamp converts to its distance from the epoch.
DateValue(v) == IF v = Null THEN 0 ELSE v[1]

MathMax(a, b) == IF a >= b THEN a ELSE b

\* Array.prototype.slice(0, end): a new array of the first end elements.
ArraySlice(arr, end) ==
    SubSeq(arr, 1, IF end < Len(arr) THEN end ELSE Len(arr))

-----------------------------------------------------------------------------
(* Analytics.calculateLossMetrics                                          *)

\* As IsClosed, the test for the null exit_price left out.
IsAnyTrade(t) == TRUE

\* t => t.exit_price !== null
IsClosed(t) == t.exit_price # Null

\* As IsLoss, a break-even trade taken for a loss.
IsLossOrBreakEven(t) == ToNumber(t.profit_loss) <= 0

\* t => t.profit_loss < 0
IsLoss(t) == ToNumber(t.profit_loss) < 0

\* As CompareExitAsc, the comparator telling no two trades apart.
CompareExitNone(a, b) == 0

\* (a, b) => new Date(a.exit_time) - new Date(b.exit_time)
CompareExitAsc(a, b) == DateValue(a.exit_time) - DateValue(b.exit_time)

\* As CompareExitDesc, the operands swapped.
CompareExitOldestFirst(a, b) == DateValue(a.exit_time) - DateValue(b.exit_time)

\* (a, b) => new Date(b.exit_time) - new Date(a.exit_time)
CompareExitDesc(a, b) == DateValue(b.exit_time) - DateValue(a.exit_time)

\* As CompareTotal, the operands swapped.
CompareTotalDesc(a, b) == b.total - a.total

\* (a, b) => a.total - b.total
CompareTotal(a, b) == a.total - b.total

\* The comparator function passed to sort, by the field it orders.
Compare(cmp, a, b) ==
    CASE cmp = "exitAsc" -> CompareExitAsc(a, b)
      [] cmp = "exitDesc" -> CompareExitDesc(a, b)
      [] cmp = "total" -> CompareTotal(a, b)

\* Array.prototype.sort(cmp): stable; each element is inserted after every
\* element already placed that does not compare greater than it.
InsertSorted(sorted, x, cmp) ==
    LET p == Cardinality({k \in 1..Len(sorted) : Compare(cmp, sorted[k], x) <= 0})
    IN  SubSeq(sorted, 1, p) \o <<x>> \o SubSeq(sorted, p + 1, Len(sorted))

ArraySort(arr, cmp) ==
    LET placed[k \in 0..Len(arr)] ==
            IF k = 0 THEN <<>> ELSE InsertSorted(placed[k - 1], arr[k], cmp)
    IN  placed[Len(arr)]

\* As the two receivers below, the sort called on the state array itself.
StreakSortOnState == "trades"

RecentSortOnState == "trades"

\* The array the streak sort is called on, and the one the recent-losses
\* sort is called on.
StreakSortReceiver == "closedTrades"

RecentSortReceiver == "losingTrades"

LossByPairLimit == 5

RecentLossesLimit == 5

\* As StreakStep, the running streak reported without Math.max.
StreakStepLastRun(acc, trade) ==
    IF ToNumber(trade.profit_loss) < 0
    THEN [currentStreak |-> acc.currentStreak + 1,
          maxStreak |-> acc.currentStreak + 1]
    ELSE [currentStreak |-> 0, maxStreak |-> acc.maxStreak]

\* The body of the forEach over the sorted closed trades.
StreakStep(acc, trade) ==
    IF IsLoss(trade)
    THEN [currentStreak |-> acc.currentStreak + 1,
          maxStreak |-> MathMax(acc.maxStreak, acc.currentStreak + 1)]
    ELSE [currentStreak |-> 0, maxStreak |-> acc.maxStreak]

StreakScan(arr) ==
    LET after[k \in 0..Len(arr)] ==
            IF k = 0 THEN [currentStreak |-> 0, maxStreak |-> 0]
            ELSE StreakStep(after[k - 1], arr[k])
    IN  after[Len(arr)].maxStreak

\* As AddLoss, an entry written when its pair is first seen and not after.
AddLossFirstOnly(obj, trade) ==
    IF \E k \in 1..Len(obj) : obj[k].pair = trade.currency_pair
    THEN obj
    ELSE Append(obj, [pair |-> trade.currency_pair, count |-> 1,
                      total |-> ToNumber(trade.profit_loss)])

\* The body of the forEach over the losing trades.  The lossByPair object is
\* the sequence of its entries in insertion order, which is the order
\* Object.entries lists string keys in.
AddLoss(obj, trade) ==
    LET present == \E k \in 1..Len(obj) : obj[k].pair = trade.currency_pair
        base == IF present THEN obj
                ELSE Append(obj, [pair |-> trade.currency_pair,
                                  count |-> 0, total |-> 0])
    IN  [k \in 1..Len(base) |->
            IF base[k].pair = trade.currency_pair
            THEN [pair |-> base[k].pair,
                  count |-> base[k].count + 1,
                  total |-> base[k].total + ToNumber(trade.profit_loss)]
            ELSE base[k]]

GroupLosses(arr) ==
    LET after[k \in 0..Len(arr)] ==
            IF k = 0 THEN <<>> ELSE AddLoss(after[k - 1], arr[k])
    IN  after[Len(arr)]

\* calculateLossMetrics run on the heap h (h.trades is the state array):
\* the heap it leaves and the object it returns.
calculateLossMetrics(h) ==
    LET h1 == [trades |-> h.trades,
               closedTrades |-> SelectSeq(h.trades, IsClosed),
               losingTrades |-> <<>>]
        h2 == [h1 EXCEPT !.losingTrades = SelectSeq(h1.closedTrades, IsLoss)]
        h3 == [h2 EXCEPT ![StreakSortReceiver] = ArraySort(@, "exitAsc")]
        maxStreak == StreakScan(h3[StreakSortReceiver])
        lossByPair == GroupLosses(h3.losingTrades)
        h4 == [h3 EXCEPT ![RecentSortReceiver] = ArraySort(@, "exitDesc")]
    IN  [heap |-> h4,
         result |->
            [totalLosses |-> Len(h3.losingTrades),
             longestStreak |-> maxStreak,
             lossByPair |-> ArraySlice(ArraySort(lossByPair, "total"),
                                       LossByPairLimit),
             recentLosses |-> ArraySlice(h4[RecentSortReceiver],
                                         RecentLossesLimit)]]

-----------------------------------------------------------------------------
(* The data source: what GET /trades and GET /analytics/stats answer       *)

\* The instruments the trade form offers.
currencyPairs ==
    <<"EURUSD", "GBPUSD", "USDJPY", "USDCHF", "AUDUSD", "USDCAD", "NZDUSD",
      "EURGBP", "EURJPY", "GBPJPY", "EURCHF", "AUDJPY", "CADJPY">>

\* A trade as the API returns it.  A trade is open iff exit_price is null,
\* and profit_loss is null exactly then; exit_time is entered separately
\* from exit_price in the form, so either may be missing without the other.
Trade(i, pair, pnl, time) ==
    [id |-> i,
     currency_pair |-> pair,
     exit_price |-> IF pnl = Null THEN Null ELSE Some(1),
     exit_time |-> time,
     profit_loss |-> pnl]

\* Longest list of each family of answers.
MaxStreakTrades == 3

MaxPairTrades == 3

MaxWideTrades == 6

MaxSizeTrades == 2

\* One instrument; open trades, losses and break-even trades; exit times
\* missing, equal and different.
StreakChoices(n) ==
    [1..n -> {Null, Some(-1), Some(0)} \X {Null, Some(1), Some(2)}]

StreakList(n, o) ==
    [i \in 1..n |-> Trade(i, currencyPairs[1], o[i][1], o[i][2])]

\* Two instruments; losses of two sizes and wins.
PairChoices(n) ==
    [1..n -> {1, 2} \X {Some(-2), Some(-1), Some(1)} \X {Some(1), Some(2)}]

PairList(n, o) ==
    [i \in 1..n |-> Trade(i, currencyPairs[o[i][1]], o[i][2], o[i][3])]

\* One losing trade per instrument, more instruments than the limits keep;
\* the first o[2] of them exited a day after the others.
WideChoices(n) == [1..n -> {Some(-2), Some(-1)}] \X (0..n)

WideList(n, o) ==
    [i \in 1..n |->
        Trade(i, currencyPairs[i], o[1][i],
              IF i <= o[2] THEN Some(2) ELSE Some(1))]

\* One instrument; losses around the size the risk-sizing insight starts at.
SizeChoices(n) == [1..n -> {Some(-51), Some(-50), Some(-49)}]

SizeList(n, o) ==
    [i \in 1..n |-> Trade(i, currencyPairs[1], o[i], Some(i))]

\* P&L -10, -20, +5, -30 in order of exit time, fetched in another order.
ScenarioTrades ==
    <<Trade(1, currencyPairs[1], Some(-10), Some(1)),
      Trade(2, currencyPairs[1], Some(-20), Some(2)),
      Trade(3, currencyPairs[1], Some(-30), Some(4)),
      Trade(4, currencyPairs[1], Some(5), Some(3))>>

RECURSIVE SumProfitLoss(_)
SumProfitLoss(arr) ==
    IF arr = <<>> THEN 0
    ELSE ToNumber(arr[1].profit_loss) + SumProfitLoss(Tail(arr))

\* The least profit_loss of a non-empty array of closed trades.
RECURSIVE MinProfitLoss(_)
MinProfitLoss(arr) ==
    IF Len(arr) = 1 THEN arr[1].profit_loss[1]
    ELSE LET m == MinProfitLoss(Tail(arr))
         IN  IF arr[1].profit_loss[1] < m THEN arr[1].profit_loss[1] ELSE m

\* The statistics the server derives from the trades it holds: win_rate is
\* the percentage of the closed trades with profit_loss >= 0, average_loss
\* the mean profit_loss of the losing closed trades, worst_trade the least
\* profit_loss of a closed trade; each is 0 when there is nothing to divide
\* by or to take the least of.
ServerStats(data) ==
    LET closed == SelectSeq(data, LAMBDA t : t.exit_price # Null)
        won == SelectSeq(closed, LAMBDA t : t.profit_loss[1] >= 0)
        lost == SelectSeq(closed, LAMBDA t : t.profit_loss[1] < 0)
    IN  [total_trades |-> Len(data),
         total_profit_loss |-> SumProfitLoss(data),
         win_rate |-> IF Len(closed) = 0 THEN [num |-> 0, den |-> 1]
                      ELSE [num |-> 100 * Len(won), den |-> Len(closed)],
         average_loss |-> IF Len(lost) = 0 THEN [num |-> 0, den |-> 1]
                          ELSE [num |-> SumProfitLoss(lost),
                                den |-> Len(lost)],
         worst_trade |-> IF Len(closed) = 0 THEN 0
                         ELSE MinProfitLoss(closed)]

-----------------------------------------------------------------------------
(* Analytics                                                               *)

\* Numbers the server or a division produced are fractions num / den with
\* den >= 0, a zero denominator standing for Infinity, -Infinity or NaN.
Quot(a, b) == [num |-> a, den |-> b]

\* q / k for a fraction q and an integer k > 0.
QuotOver(q, k) == [num |-> q.num, den |-> q.den * k]

\* 1 - q
OneMinus(q) == [num |-> q.den - q.num, den |-> q.den]

\* k * q for an integer k.
QuotTimes(k, q) == [num |-> k * q.num, den |-> q.den]

\* q < k for a fraction q and an integer k: false when q is NaN.
QuotLess(q, k) == q.den > 0 /\ q.num < k * q.den

MathAbs(a) == IF a < 0 THEN -a ELSE a

\* As winLossData, the Losses value without the division by 100.
winLossDataPlainRate(st) ==
    <<[name |-> "Wins",
       value |-> QuotTimes(st.total_trades, QuotOver(st.win_rate, 100))],
      [name |-> "Losses",
       value |-> QuotTimes(st.total_trades, OneMinus(st.win_rate))]>>

\* winLossData
winLossData(st) ==
    <<[name |-> "Wins",
       value |-> QuotTimes(st.total_trades, QuotOver(st.win_rate, 100))],
      [name |-> "Losses",
       value |-> QuotTimes(st.total_trades,
                           OneMinus(QuotOver(st.win_rate, 100)))]>>

\* As ShowsLossCards, the test for a positive totalLosses left out.
ShowsLossCardsAlways(lm) == lm # Null

\* As ShowsLossCards, one loss not being enough.
ShowsLossCardsOverOne(lm) == lm # Null /\ lm[1].totalLosses > 1

\* lossMetrics && lossMetrics.totalLosses > 0: the losses tab shows the
\* loss cards; otherwise it shows the Perfect Record card.
ShowsLossCards(lm) == lm # Null /\ lm[1].totalLosses > 0

\* (lossMetrics.totalLosses / stats.total_trades) * 100
LossPercent(st, lm) ==
    LET q == Quot(lm.totalLosses, st.total_trades)
    IN  [num |-> q.num * 100, den |-> q.den]

StreakWarningOver == 2

AverageLossUnder == -50

\* One line of the Loss Insights card: the rule that wrote it, and the
\* amount or the pair it cites (0 and "" when it cites none).
InsightLine(rule, amount, pair) ==
    [rule |-> rule, amount |-> amount, pair |-> pair]

\* As StreakWarning, a streak of two warned about as well.
StreakWarningFromTwo(lm) ==
    IF lm.longestStreak >= StreakWarningOver
    THEN <<InsightLine("streak", lm.longestStreak, "")>>
    ELSE <<>>

\* lossMetrics.longestStreak > 2 && ...
StreakWarning(lm) ==
    IF lm.longestStreak > StreakWarningOver
    THEN <<InsightLine("streak", lm.longestStreak, "")>>
    ELSE <<>>

\* stats.average_loss < -50 && ...
RiskSizing(st) ==
    IF QuotLess(st.average_loss, AverageLossUnder)
    THEN <<InsightLine("riskSizing", 0, "")>>
    ELSE <<>>

\* lossMetrics.lossByPair.length > 0 && ... lossByPair[0].pair
WorstPair(lm) ==
    IF Len(lm.lossByPair) > 0
    THEN <<InsightLine("worstPair", 0, lm.lossByPair[1].pair)>>
    ELSE <<>>

\* As LossInsights, the worst-trade line giving way to the streak warning.
LossInsightsStreakInstead(st, lm) ==
    (IF lm.longestStreak > StreakWarningOver THEN <<>>
     ELSE <<InsightLine("worstTrade", MathAbs(st.worst_trade), "")>>)
        \o StreakWarning(lm) \o RiskSizing(st) \o WorstPair(lm)

\* The lines of the Loss Insights card, top to bottom.
LossInsights(st, lm) ==
    <<InsightLine("worstTrade", MathAbs(st.worst_trade), "")>>
        \o StreakWarning(lm) \o RiskSizing(st) \o WorstPair(lm)

\* What the page view shows: the win/loss chart, and on the losses tab
\* either the loss cards, with the percentage of trades lost and the Loss
\* Insights card, or the Perfect Record card.
PageView(st, lm) ==
    IF ShowsLossCards(Some(lm))
    THEN [winLossData |-> winLossData(st),
          lossesTab |-> "lossCards",
          lossPercent |-> Some(LossPercent(st, lm)),
          insights |-> LossInsights(st, lm)]
    ELSE [winLossData |-> winLossData(st),
          lossesTab |-> "perfectRecord",
          lossPercent |-> Null,
          insights |-> <<>>]

\* One run of the component function on state (st, tr, ld): the view it
\* returns, the lossMetrics it computed, the trades array afterwards, and
\* what the page view shows.  With stats null the component function
\* throws at stats.total_trades and nothing is shown.
RenderAnalytics(st, tr, ld) ==
    IF ld
    THEN [view |-> "loading", lossMetrics |-> Null, trades |-> tr,
          page |-> Null]
    ELSE IF st = Null
    THEN [view |-> "error", lossMetrics |-> Null, trades |-> tr,
          page |-> Null]
    ELSE LET run == calculateLossMetrics([trades |-> tr])
         IN  [view |-> "page",
              lossMetrics |-> Some(run.result),
              trades |-> run.heap.trades,
              page |-> Some(PageView(st[1], run.result))]

\* The state updates of fetchData, both requests fulfilled with the trade
\* list data, and the render that follows them.
FetchDataDone(data) ==
    LET st == Some(ServerStats(data))
        r == RenderAnalytics(st, data, FALSE)
    IN  /\ tradesRes' = Some(data)
        /\ stats' = st
        /\ trades' = r.trades
        /\ loading' = FALSE
        /\ lossMetrics' = r.lossMetrics
        /\ view' = r.view
        /\ page' = r.page
        /\ rerendered' = FALSE
        /\ UNCHANGED <<planVars, shellVars>>

\* How one request settled, and how the two requests of a fetchData did;
\* Pending until they have.
Pending == <<"pending", "pending">>

Outcomes == {"fulfilled", "rejected"} \X {"fulfilled", "rejected"}

\* As PromiseAll, fulfilled as soon as one of the requests is.
PromiseAny(o) ==
    IF o[1] = "fulfilled" \/ o[2] = "fulfilled" THEN "fulfilled"
    ELSE "rejected"

\* await Promise.all([...]) resumes normally when both requests are
\* fulfilled and throws when either is rejected.
PromiseAll(o) ==
    IF o[1] = "fulfilled" /\ o[2] = "fulfilled" THEN "fulfilled"
    ELSE "rejected"

\* fetchData, both requests fulfilled, whatever list the account holds.
FetchDataOk ==
    /\ mounted = "analytics"
    /\ loading
    /\ fetchOutcome = Pending
    /\ \E o \in Outcomes : PromiseAll(o) = "fulfilled" /\ fetchOutcome' = o
    /\ \/ \E n \in 0..MaxStreakTrades : \E o \in StreakChoices(n) :
             FetchDataDone(StreakList(n, o))
       \/ \E n \in 0..MaxPairTrades : \E o \in PairChoices(n) :
             FetchDataDone(PairList(n, o))
       \/ \E n \in 0..MaxWideTrades : \E o \in WideChoices(n) :
             FetchDataDone(WideList(n, o))
       \/ \E n \in 0..MaxSizeTrades : \E o \in SizeChoices(n) :
             FetchDataDone(SizeList(n, o))
       \/ FetchDataDone(ScenarioTrades)

\* fetchData, a request rejected: only setLoading(false) runs.
FetchDataFail ==
    /\ mounted = "analytics"
    /\ loading
    /\ fetchOutcome = Pending
    /\ \E o \in Outcomes : PromiseAll(o) = "rejected" /\ fetchOutcome' = o
    /\ LET r == RenderAnalytics(stats, trades, FALSE)
       IN  /\ loading' = FALSE
           /\ trades' = r.trades
           /\ lossMetrics' = r.lossMetrics
           /\ view' = r.view
           /\ page' = r.page
    /\ UNCHANGED <<stats, tradesRes, rerendered, planVars, shellVars>>

\* The component function runs again on unchanged state.
ReRender ==
    /\ view = "page"
    /\ rerendered' = TRUE
    /\ LET r == RenderAnalytics(stats, trades, loading)
       IN  /\ trades' = r.trades
           /\ lossMetrics' = r.lossMetrics
           /\ view' = r.view
           /\ page' = r.page
    /\ UNCHANGED <<stats, tradesRes, loading, fetchOutcome, planVars,
                   shellVars>>

AnalyticsInit ==
    /\ stats = Null
    /\ trades = <<>>
    /\ tradesRes = Null
    /\ loading = TRUE
    /\ lossMetrics = Null
    /\ view = "loading"
    /\ rerendered = FALSE
    /\ page = Null
    /\ fetchOutcome = Pending

PlanIdle ==
    /\ goals = <<>>
    /\ planStats = Null
    /\ planLoading = TRUE
    /\ planView = <<>>
    /\ clock = 0
    /\ statusAt = 0
    /\ planOutcome = Pending

\* Dashboard, Trades and TradeDetail as constructed.
DataIdle ==
    /\ dashStats = Null /\ equityCurve = <<>> /\ dashLoading = TRUE
    /\ dashOutcome = Pending
    /\ listTrades = <<>> /\ filteredTrades = <<>> /\ searchTerm = <<>>
    /\ listLoading = TRUE /\ listOutcome = "pending"
    /\ detailTrade = Null /\ detailLoading = TRUE
    /\ detailOutcome = "pending"

\* The data pages as constructed, with no call of fetchData followed.
PagesIdle == serverGoals = <<>> /\ fetches = <<>> /\ DataIdle

NoRequests == [login |-> "none", register |-> "none", settings |-> "none"]

NoneLoading == [login |-> FALSE, register |-> FALSE, settings |-> FALSE]

\* App as constructed, with nothing in localStorage.
AuthIdle ==
    /\ token = Null /\ storedUser = Null /\ isAuthenticated = FALSE
    /\ appLoading = TRUE /\ location = "/"
    /\ authForm = NoneLoading
    /\ authRequest = NoRequests

\* handleSubmit of AddTrade is not running.
Idle == [at |-> "idle", screenshot |-> Null]

\* AddTrade as constructed, and the trades on the server before any was
\* added.
AddIdle ==
    /\ addLoading = FALSE /\ uploadingScreenshot = FALSE
    /\ screenshot = Null /\ addStep = Idle /\ serverTrades = <<>>
    /\ uploads = <<>> /\ addToast = <<>>

ShellIdle == PagesIdle /\ AuthIdle /\ AddIdle

Init ==
    /\ AnalyticsInit /\ PlanIdle /\ utcOffset = 0
    /\ ShellIdle /\ mounted = "analytics"

Next == FetchDataOk \/ FetchDataFail \/ ReRender

Spec == Init /\ [][Next]_vars

-----------------------------------------------------------------------------
(* TradingPlan                                                             *)

\* A JavaScript number that a division produced is kept exact, as a
\* fraction with a positive denominator; a zero denominator is Infinity,
\* -Infinity or (0 / 0) NaN.
NumDiv(a, b) ==
    IF b >= 0 THEN [num |-> a, den |-> b] ELSE [num |-> -a, den |-> -b]

NumTimes(q, k) == [num |-> q.num * k, den |-> q.den]

\* Math.min(q, k) for a fraction q and an integer k; NaN stays NaN.
MathMin(q, k) == IF q.num <= k * q.den THEN q ELSE [num |-> k, den |-> 1]

NaN == [num |-> 0, den |-> 0]

\* q >= k for a fraction q and an integer k: false when q is NaN.
NumGeq(q, k) == q.den > 0 /\ q.num >= k * q.den

\* Math.ceil(a / b) for integers a and b > 0; -0 is the integer 0.
MathCeil(a, b) == -((-a) \div b)

ProgressCap == 100

\* As calculateProgress, the result clamped from below at 0 as well.
calculateProgressFloored(st, goal) ==
    IF st = Null \/ st[1].total_profit_loss < 0 THEN [num |-> 0, den |-> 1]
    ELSE MathMin(NumTimes(IF "target_amount" \in DOMAIN goal
                          THEN NumDiv(st[1].total_profit_loss,
                                      goal.target_amount)
                          ELSE NaN,
                          100),
                 100)

\* calculateProgress(goal) with the component's stats st.  A goal without
\* the property target_amount reads as undefined, and a number divided by
\* undefined is NaN.
calculateProgress(st, goal) ==
    IF st = Null THEN [num |-> 0, den |-> 1]
    ELSE MathMin(NumTimes(IF "target_amount" \in DOMAIN goal
                          THEN NumDiv(st[1].total_profit_loss,
                                      goal.target_amount)
                          ELSE NaN,
                          100),
                 ProgressCap)

\* The clock counts ticks; one day, 1000 * 60 * 60 * 24 ms, is DayLength
\* ticks.
DayLength == 4

\* The time value of new Date("YYYY-MM-DD"): a date-only string is the
\* midnight that begins that day in UTC, whatever the browser's zone.
DateOnlyValue(day) == day * DayLength

\* Math.ceil((new Date(goal.target_date) - new Date()) / one day), the
\* clock reading now.
DaysLeft(goal, now) ==
    MathCeil(DateOnlyValue(goal.target_date) - now, DayLength)

AchievedAt == 100

UrgentDays == 7

\* As getGoalStatus, urgent only with fewer than seven days left.
getGoalStatusUnderSeven(st, goal, now) ==
    LET progress == calculateProgress(st, goal)
        daysLeft == DaysLeft(goal, now)
    IN  IF goal.completed THEN "completed"
        ELSE IF NumGeq(progress, AchievedAt) THEN "achieved"
        ELSE IF daysLeft < 0 THEN "expired"
        ELSE IF daysLeft < UrgentDays THEN "urgent"
        ELSE "active"

\* As getGoalStatus, the target date looked at before the progress.
getGoalStatusDateFirst(st, goal, now) ==
    LET progress == calculateProgress(st, goal)
        daysLeft == DaysLeft(goal, now)
    IN  IF goal.completed THEN "completed"
        ELSE IF daysLeft < 0 THEN "expired"
        ELSE IF NumGeq(progress, AchievedAt) THEN "achieved"
        ELSE IF daysLeft <= UrgentDays THEN "urgent"
        ELSE "active"

\* getGoalStatus(goal) with the component's stats st, its new Date()
\* reading now.
getGoalStatus(st, goal, now) ==
    LET progress == calculateProgress(st, goal)
        daysLeft == DaysLeft(goal, now)
    IN  IF goal.completed THEN "completed"
        ELSE IF NumGeq(progress, AchievedAt) THEN "achieved"
        ELSE IF daysLeft < 0 THEN "expired"
        ELSE IF daysLeft <= UrgentDays THEN "urgent"
        ELSE "active"

\* Largest goal list, target amount and profit or loss the API answers,
\* and the last tick at which a render begins.
MaxGoals == 2

MaxTarget == 3

MaxProfit == 4

MaxClock == 5

\* A goal as the API returns it; target_date is the day the date input
\* sent, counted from the epoch.
Goal(i, amount, day, done) ==
    [id |-> i, target_amount |-> amount, target_date |-> day,
     completed |-> done]

\* A goal the API returns without a target_amount.
GoalNoTarget(i, day) == [id |-> i, target_date |-> day, completed |-> FALSE]

\* Target days before, on and after the days the clock covers, and on both
\* sides of the seven days.
TargetDays == {0, 1, 2, 5, 8, 9}

FarDay == 9

GoalLists ==
    UNION {{[i \in 1..n |-> Goal(i, a[i], FarDay, FALSE)] :
               a \in [1..n -> 1..MaxTarget]} :
           n \in 0..MaxGoals}

PlanStats == {[total_profit_loss |-> p] : p \in -MaxProfit..MaxProfit}

\* Target 1000 due on day 5, with a profit of 400 and with one of 1200.
ScenarioGoal == Goal(1, 1000, 5, FALSE)

ScenarioStats == {[total_profit_loss |-> 400], [total_profit_loss |-> 1200]}

\* The zones a browser may run in, as the ticks its local time is ahead of
\* UTC.
UtcOffsets == {-1, 0, 1}

\* {daysLeft > 0 ? daysLeft : 0} days
DaysShown(daysLeft) == IF daysLeft > 0 THEN daysLeft ELSE 0

\* One run of the component function: the progress, the status and the
\* days left of each goal card.  getGoalStatus reads the clock at now, the
\* card reads it again at later.
RenderPlan(gs, st, ld, now, later) ==
    IF ld THEN <<>>
    ELSE [k \in 1..Len(gs) |->
            [id |-> gs[k].id,
             progress |-> calculateProgress(st, gs[k]),
             status |-> getGoalStatus(st, gs[k], now),
             daysLeft |-> DaysLeft(gs[k], later),
             daysShown |-> DaysShown(DaysLeft(gs[k], later))]]

\* The state updates of fetchData, both requests fulfilled, and the render
\* that follows them, begun at tick now; the clock may tick during it.
PlanFetchDone(gs, st) ==
    \E now \in clock..MaxClock, later \in {0, 1} :
        /\ goals' = gs
        /\ planStats' = Some(st)
        /\ planLoading' = FALSE
        /\ statusAt' = now
        /\ clock' = now + later
        /\ planView' = RenderPlan(gs, Some(st), FALSE, now, now + later)
        /\ UNCHANGED <<utcOffset, analyticsVars, dashVars, listVars,
                       detailVars, authVars, addVars, mounted>>

\* fetchData, both requests fulfilled.
PlanFetchOk ==
    /\ mounted = "plan"
    /\ planLoading
    /\ planOutcome = Pending
    /\ \E o \in Outcomes : PromiseAll(o) = "fulfilled" /\ planOutcome' = o
    /\ UNCHANGED raceVars
    /\ \/ \E gs \in GoalLists, st \in PlanStats : PlanFetchDone(gs, st)
       \/ \E a \in 1..MaxTarget, d \in TargetDays, c \in BOOLEAN,
             st \in PlanStats :
             PlanFetchDone(<<Goal(1, a, d, c)>>, st)
       \/ \E d \in TargetDays, st \in PlanStats :
             PlanFetchDone(<<GoalNoTarget(1, d)>>, st)
       \/ \E st \in ScenarioStats : PlanFetchDone(<<ScenarioGoal>>, st)

\* fetchData, a request rejected: only setLoading(false) runs.
PlanFetchFail ==
    /\ mounted = "plan"
    /\ planLoading
    /\ planOutcome = Pending
    /\ \E o \in Outcomes : PromiseAll(o) = "rejected" /\ planOutcome' = o
    /\ planLoading' = FALSE
    /\ planView' = RenderPlan(goals, planStats, FALSE, clock, clock)
    /\ UNCHANGED <<goals, planStats, clock, statusAt, utcOffset,
                   analyticsVars, shellVars>>

PlanInit ==
    /\ PlanIdle /\ AnalyticsInit /\ utcOffset \in UtcOffsets
    /\ ShellIdle /\ mounted = "plan"

PlanNext == PlanFetchOk \/ PlanFetchFail

SpecPlan == PlanInit /\ [][PlanNext]_vars

-----------------------------------------------------------------------------
(* TradingPlan with its handlers                                           *)

\* Most calls of fetchData that are followed.
MaxFetches == 3

\* The profit of the account, above the target of every goal below.
RaceStats == [total_profit_loss |-> MaxTarget]

\* fetchData up to its await: the server answers both requests from what
\* it holds when they reach it; the responses travel for any time.
Fetch(held) == [goals |-> held, stats |-> RaceStats, status |-> "pending"]

raceOthers ==
    <<analyticsVars, dashVars, listVars, detailVars, authVars, addVars,
      mounted>>

\* The response of call k arrives, both requests fulfilled: setGoals,
\* setStats, setLoading(false), whichever calls were made after it.
FetchArrives ==
    \E k \in 1..Len(fetches) :
        /\ fetches[k].status = "pending"
        /\ fetches' = [fetches EXCEPT ![k].status = "fulfilled"]
        /\ planOutcome' = IF k = 1 THEN <<"fulfilled", "fulfilled">>
                          ELSE planOutcome
        /\ PlanFetchDone(fetches[k].goals, fetches[k].stats)
        /\ UNCHANGED serverGoals

\* A request of call k is rejected: only setLoading(false) runs.
FetchRejects ==
    \E k \in 1..Len(fetches) :
        /\ fetches[k].status = "pending"
        /\ fetches' = [fetches EXCEPT ![k].status = "rejected"]
        /\ planOutcome' = IF k = 1 THEN <<"rejected", "fulfilled">>
                          ELSE planOutcome
        /\ planLoading' = FALSE
        /\ planView' = RenderPlan(goals, planStats, FALSE, clock, clock)
        /\ UNCHANGED <<goals, planStats, clock, statusAt, utcOffset,
                       serverGoals, raceOthers>>

\* handleAddGoal with POST /goals fulfilled: the server holds the new goal
\* and fetchData is called.  The form is part of the page view.
HandleAddGoal ==
    /\ ~planLoading
    /\ Len(fetches) < MaxFetches
    /\ Len(serverGoals) < MaxGoals
    /\ \E a \in 1..MaxTarget :
          LET held == Append(serverGoals,
                             Goal(Len(fetches) + 1, a, FarDay, FALSE))
          IN  /\ serverGoals' = held
              /\ fetches' = Append(fetches, Fetch(held))
    /\ UNCHANGED <<planVars, raceOthers>>

\* The goals the server holds with the ids of held.
Places(held, goalId) == {k \in 1..Len(held) : held[k].id = goalId}

\* handleDeleteGoal of a goal shown, DELETE fulfilled: the server holds
\* the goal no more and fetchData is called.
HandleDeleteGoal ==
    /\ ~planLoading
    /\ Len(fetches) < MaxFetches
    /\ \E c \in 1..Len(goals) :
          /\ Places(serverGoals, goals[c].id) # {}
          /\ LET held == SelectSeq(serverGoals,
                                   LAMBDA g : g.id # goals[c].id)
             IN  /\ serverGoals' = held
                 /\ fetches' = Append(fetches, Fetch(held))
    /\ UNCHANGED <<planVars, raceOthers>>

\* handleCompleteGoal of a goal shown as achieved, PUT fulfilled: the
\* server holds the goal as completed and fetchData is called.
HandleCompleteGoal ==
    /\ ~planLoading
    /\ Len(fetches) < MaxFetches
    /\ \E c \in 1..Len(planView) :
          /\ planView[c].status = "achieved"
          /\ Places(serverGoals, goals[c].id) # {}
          /\ LET held == [k \in 1..Len(serverGoals) |->
                            IF serverGoals[k].id = goals[c].id
                            THEN [serverGoals[k] EXCEPT !.completed = TRUE]
                            ELSE serverGoals[k]]
             IN  /\ serverGoals' = held
                 /\ fetches' = Append(fetches, Fetch(held))
    /\ UNCHANGED <<planVars, raceOthers>>

\* TradingPlan is mounted and its effect has called fetchData.
RaceInit ==
    /\ PlanIdle /\ AnalyticsInit /\ utcOffset = 0
    /\ DataIdle /\ AuthIdle /\ AddIdle /\ mounted = "plan"
    /\ serverGoals \in {<<>>, <<Goal(1, 1, FarDay, FALSE)>>}
    /\ fetches = <<Fetch(serverGoals)>>

RaceNext ==
    \/ FetchArrives
    \/ FetchRejects
    \/ HandleAddGoal
    \/ HandleDeleteGoal
    \/ HandleCompleteGoal

SpecRace == RaceInit /\ [][RaceNext]_vars

-----------------------------------------------------------------------------
(* Dashboard, Trades and TradeDetail                                       *)

\* The equity curve the server derives from the trades it holds: one point
\* after each closed trade, with the balance summed so far.
EquityCurve(data) ==
    LET closed == SelectSeq(data, LAMBDA t : t.exit_price # Null)
    IN  [k \in 1..Len(closed) |->
            [date |-> closed[k].exit_time,
             balance |-> SumProfitLoss(SubSeq(closed, 1, k))]]

\* The accounts the dashboard is opened on.
DashAccounts == {<<>>, ScenarioTrades}

\* Dashboard.fetchData, both requests fulfilled.
DashFetchOk ==
    /\ mounted = "dashboard"
    /\ dashLoading
    /\ dashOutcome = Pending
    /\ \E o \in Outcomes : PromiseAll(o) = "fulfilled" /\ dashOutcome' = o
    /\ \E data \in DashAccounts :
          /\ dashStats' = Some(ServerStats(data))
          /\ equityCurve' = EquityCurve(data)
    /\ dashLoading' = FALSE
    /\ UNCHANGED <<analyticsVars, planVars, raceVars, listVars, detailVars,
                   authVars, addVars, mounted>>

\* Dashboard.fetchData, a request rejected: only setLoading(false) runs.
DashFetchFail ==
    /\ mounted = "dashboard"
    /\ dashLoading
    /\ dashOutcome = Pending
    /\ \E o \in Outcomes : PromiseAll(o) = "rejected" /\ dashOutcome' = o
    /\ dashLoading' = FALSE
    /\ UNCHANGED <<dashStats, equityCurve, analyticsVars, planVars, raceVars,
                   listVars, detailVars, authVars, addVars, mounted>>

\* Text is a sequence of letters.  String.prototype.toLowerCase maps each
\* capital to its small letter and leaves the others.
LowerLetter(c) ==
    CASE c = "E" -> "e"
      [] c = "U" -> "u"
      [] c = "G" -> "g"
      [] OTHER -> c

ToLowerCase(text) == [i \in 1..Len(text) |-> LowerLetter(text[i])]

\* String.prototype.includes
StringIncludes(text, part) ==
    \E i \in 1..(Len(text) - Len(part) + 1) :
        SubSeq(text, i, i + Len(part) - 1) = part

\* The truth value of a nullable string: null and '' are falsy.
Truthy(v) == v # Null /\ v[1] # <<>>

\* As TradeMatches, the search term compared as it was typed.
TradeMatchesTermAsTyped(trade, term) ==
    \/ StringIncludes(ToLowerCase(trade.currency_pair), term)
    \/ /\ Truthy(trade.strategy)
       /\ StringIncludes(ToLowerCase(trade.strategy[1]), term)

\* The predicate of trades.filter in the effect.
TradeMatches(trade, term) ==
    \/ StringIncludes(ToLowerCase(trade.currency_pair), ToLowerCase(term))
    \/ /\ Truthy(trade.strategy)
       /\ StringIncludes(ToLowerCase(trade.strategy[1]), ToLowerCase(term))

\* The effect on [searchTerm, trades]: the value it gives filteredTrades.
FilterEffect(trs, term) ==
    IF term # <<>>
    THEN SelectSeq(trs, LAMBDA trade : TradeMatches(trade, term))
    ELSE trs

\* Longest trade list the Trades page is given.
MaxListTrades == 2

PairTexts == {<<"E", "U">>, <<"G", "U">>}

StrategyTexts == {Null, Some(<<"e">>), Some(<<"U", "e">>)}

SearchTerms == {<<>>, <<"e">>, <<"E", "u">>, <<"u", "e">>, <<"G">>}

ListChoices(n) == [1..n -> PairTexts \X StrategyTexts]

TradeRows(n, o) ==
    [i \in 1..n |-> [id |-> i, currency_pair |-> o[i][1],
                     strategy |-> o[i][2]]]

\* fetchTrades, the request fulfilled: setTrades and setFilteredTrades with
\* the response, setLoading(false), then the effect on trades.
FetchTradesOk ==
    /\ mounted = "trades"
    /\ listLoading
    /\ listOutcome = "pending"
    /\ listOutcome' = "fulfilled"
    /\ \E n \in 0..MaxListTrades : \E o \in ListChoices(n) :
          /\ listTrades' = TradeRows(n, o)
          /\ filteredTrades' = FilterEffect(TradeRows(n, o), searchTerm)
    /\ listLoading' = FALSE
    /\ UNCHANGED <<searchTerm, analyticsVars, planVars, raceVars, dashVars,
                   detailVars, authVars, addVars, mounted>>

\* As FetchTradesFail, setLoading(false) left out.
FetchTradesFailStaysLoading ==
    /\ mounted = "trades"
    /\ listLoading
    /\ listOutcome = "pending"
    /\ listOutcome' = "rejected"
    /\ UNCHANGED <<listLoading, listTrades, filteredTrades, searchTerm,
                   analyticsVars, planVars, raceVars, dashVars, detailVars,
                   authVars, addVars, mounted>>

\* fetchTrades, the request rejected: only setLoading(false) runs.
FetchTradesFail ==
    /\ mounted = "trades"
    /\ listLoading
    /\ listOutcome = "pending"
    /\ listOutcome' = "rejected"
    /\ listLoading' = FALSE
    /\ UNCHANGED <<listTrades, filteredTrades, searchTerm, analyticsVars,
                   planVars, raceVars, dashVars, detailVars, authVars,
                   addVars, mounted>>

\* The search input's onChange, and the effect on searchTerm after it.  The
\* input is part of the page view, which the loading view comes before.
SetSearchTerm ==
    /\ mounted = "trades"
    /\ ~listLoading
    /\ \E term \in SearchTerms :
          /\ term # searchTerm
          /\ searchTerm' = term
          /\ filteredTrades' = FilterEffect(listTrades, term)
    /\ UNCHANGED <<listTrades, listLoading, listOutcome, analyticsVars,
                   planVars, raceVars, dashVars, detailVars, authVars,
                   addVars, mounted>>

\* The trades a detail page is opened on.
DetailTrades == {ScenarioTrades[1], ScenarioTrades[4]}

\* fetchTrade, the request fulfilled.
FetchTradeOk ==
    /\ mounted = "detail"
    /\ detailLoading
    /\ detailOutcome = "pending"
    /\ detailOutcome' = "fulfilled"
    /\ \E t \in DetailTrades : detailTrade' = Some(t)
    /\ detailLoading' = FALSE
    /\ UNCHANGED <<analyticsVars, planVars, raceVars, dashVars, listVars,
                   authVars, addVars, mounted>>

\* fetchTrade, the request rejected: navigate('/trades'), which mounts the
\* Trades page, and setLoading(false).
FetchTradeFail ==
    /\ mounted = "detail"
    /\ detailLoading
    /\ detailOutcome = "pending"
    /\ detailOutcome' = "rejected"
    /\ mounted' = "trades"
    /\ detailLoading' = FALSE
    /\ UNCHANGED <<detailTrade, analyticsVars, planVars, raceVars, dashVars,
                   listVars, authVars, addVars>>

Pages == {"analytics", "plan", "dashboard", "trades", "detail"}

PagesInit ==
    /\ AnalyticsInit /\ PlanIdle /\ utcOffset = 0
    /\ ShellIdle /\ mounted \in Pages

\* Each page runs while the router has it mounted.
PagesNext ==
    \/ FetchDataOk
    \/ FetchDataFail
    \/ PlanFetchOk
    \/ PlanFetchFail
    \/ DashFetchOk
    \/ DashFetchFail
    \/ FetchTradesOk
    \/ FetchTradesFail
    \/ SetSearchTerm
    \/ FetchTradeOk
    \/ FetchTradeFail

SpecPages == PagesInit /\ [][PagesNext]_vars

-----------------------------------------------------------------------------
(* Properties of the loss metrics                                          *)

\* The page is shown and lossMetrics holds the object of its render.
Loaded == view = "page" /\ lossMetrics # Null

Metrics == lossMetrics[1]

\* The day a trade was exited; a missing exit_time counts as the epoch.
ExitDay(t) == IF t.exit_time = Null THEN 0 ELSE t.exit_time[1]

Closed(t) == t.exit_price # Null

Losing(t) == Closed(t) /\ t.profit_loss # Null /\ t.profit_loss[1] < 0

ClosedAt(L) == {i \in 1..Len(L) : Closed(L[i])}

LosingAt(L) == {i \in 1..Len(L) : Losing(L[i])}

\* Trade i comes before trade j chronologically; trades exited the same day
\* keep the order they were fetched in.
Earlier(L, i, j) ==
    \/ ExitDay(L[i]) < ExitDay(L[j])
    \/ ExitDay(L[i]) = ExitDay(L[j]) /\ i < j

\* The place of closed trade k among the closed trades, from 1.
Place(L, k) == 1 + Cardinality({j \in ClosedAt(L) : Earlier(L, j, k)})

SetMax(S) == CHOOSE m \in S : \A x \in S : x <= m

\* The most places in a row that losing trades hold.
LongestLosingRun(L) ==
    LET lost == {Place(L, k) : k \in LosingAt(L)}
    IN  SetMax({0} \cup {r[2] - r[1] + 1 :
                    r \in {q \in lost \X lost :
                              q[1] <= q[2] /\ q[1]..q[2] \subseteq lost}})

\* C1: longestStreak is the length of the longest run of consecutive losing
\* trades among the closed trades in chronological order, a closed trade
\* with profit_loss >= 0 ending the run; P&L -10, -20, +5, -30 gives 2.
C1_LongestStreak ==
    Loaded =>
        /\ Metrics.longestStreak = LongestLosingRun(trades)
        /\ trades = ScenarioTrades => Metrics.longestStreak = 2

C1_Witness ==
    /\ Loaded
    /\ trades = ScenarioTrades
    /\ Metrics.longestStreak = 2

\* C2: totalLosses counts the closed trades with profit_loss < 0, and open
\* trades contribute to no field of the result: the result is the one the
\* list without its open trades gives.
C2_OpenTradesIgnored ==
    Loaded =>
        /\ Metrics.totalLosses = Cardinality(LosingAt(trades))
        /\ Metrics = calculateLossMetrics(
                        [trades |-> SelectSeq(trades, Closed)]).result

C2_Witness ==
    /\ Loaded
    /\ \E i \in 1..Len(trades) :
          ~Closed(trades[i]) /\ trades[i].exit_time = Some(1)
    /\ \E i, j \in LosingAt(trades) :
          ExitDay(trades[i]) = 0 /\ ExitDay(trades[j]) = 2
    /\ Metrics.longestStreak = 2

PairLosses(L, p) == {i \in LosingAt(L) : L[i].currency_pair = p}

LosingPairs(L) == {L[i].currency_pair : i \in LosingAt(L)}

RECURSIVE SumProfitLossAt(_, _)
SumProfitLossAt(L, S) ==
    IF S = {} THEN 0
    ELSE LET i == CHOOSE x \in S : TRUE
         IN  L[i].profit_loss[1] + SumProfitLossAt(L, S \ {i})

RECURSIVE SumCounts(_)
SumCounts(entries) ==
    IF entries = <<>> THEN 0
    ELSE entries[1].count + SumCounts(Tail(entries))

\* C3: a pair has at most one entry in lossByPair; an entry's count is the
\* number of losing closed trades of its pair and its total their summed
\* profit_loss, below 0; with at most 5 losing pairs the counts sum to
\* totalLosses.
C3_LossByPairEntries ==
    Loaded =>
        LET lbp == Metrics.lossByPair
        IN  /\ \A a, b \in 1..Len(lbp) : a # b => lbp[a].pair # lbp[b].pair
            /\ \A a \in 1..Len(lbp) :
                  /\ lbp[a].count = Cardinality(PairLosses(trades, lbp[a].pair))
                  /\ lbp[a].total =
                        SumProfitLossAt(trades, PairLosses(trades, lbp[a].pair))
                  /\ lbp[a].total < 0
            /\ Cardinality(LosingPairs(trades)) <= 5 =>
                  SumCounts(lbp) = Metrics.totalLosses

C3_Witness ==
    /\ Loaded
    /\ Len(Metrics.lossByPair) = 2
    /\ \E a \in 1..2 : /\ Metrics.lossByPair[a].count = 2
                       /\ Metrics.lossByPair[a].total = -3
    /\ Metrics.totalLosses = 3

\* C4: lossByPair has at most 5 entries in non-decreasing order of total,
\* and no pair left out has a total below that of a pair kept.
C4_WorstPairsKept ==
    Loaded =>
        LET lbp == Metrics.lossByPair
            kept == {lbp[a].pair : a \in 1..Len(lbp)}
        IN  /\ Len(lbp) <= 5
            /\ \A a, b \in 1..Len(lbp) : a < b => lbp[a].total <= lbp[b].total
            /\ kept \subseteq LosingPairs(trades)
            /\ \A p \in LosingPairs(trades) \ kept : \A a \in 1..Len(lbp) :
                  SumProfitLossAt(trades, PairLosses(trades, p)) >= lbp[a].total

C4_Witness ==
    /\ Loaded
    /\ Cardinality(LosingPairs(trades)) > 5
    /\ Len(Metrics.lossByPair) = 5
    /\ Metrics.lossByPair[1].total < Metrics.lossByPair[5].total
    /\ trades[1].profit_loss = Some(-1)
    /\ trades[Len(trades)].profit_loss = Some(-2)

\* C5: recentLosses holds min(5, totalLosses) losing closed trades of the
\* input, each once, latest exit first, and no losing trade left out was
\* exited later than one kept.
C5_RecentLosses ==
    Loaded =>
        LET rl == Metrics.recentLosses
            keptIds == {rl[a].id : a \in 1..Len(rl)}
        IN  /\ Len(rl) = IF Metrics.totalLosses < 5 THEN Metrics.totalLosses ELSE 5
            /\ \A a \in 1..Len(rl) : \E i \in LosingAt(trades) : rl[a] = trades[i]
            /\ Cardinality(keptIds) = Len(rl)
            /\ \A a, b \in 1..Len(rl) : a < b => ExitDay(rl[a]) >= ExitDay(rl[b])
            /\ \A i \in LosingAt(trades) : trades[i].id \notin keptIds =>
                  \A a \in 1..Len(rl) : ExitDay(trades[i]) <= ExitDay(rl[a])

C5_Witness ==
    /\ Loaded
    /\ Metrics.totalLosses > 5
    /\ Len(Metrics.recentLosses) = 5
    /\ ExitDay(Metrics.recentLosses[1]) > ExitDay(Metrics.recentLosses[5])
    /\ ExitDay(trades[1]) = 2
    /\ ExitDay(trades[Len(trades)]) = 1

StreakOf(L) == calculateLossMetrics([trades |-> L]).result.longestStreak

LastExitDay(L) == SetMax({0} \cup {ExitDay(L[i]) : i \in 1..Len(L)})

\* L with one more trade, a closed loss exited after every trade of L.
WithLaterLoss(L) ==
    Append(L, Trade(Len(L) + 1, currencyPairs[1], Some(-1),
                    Some(LastExitDay(L) + 1)))

\* C6: appending a losing closed trade exited later than every trade of
\* the list never lowers longestStreak, nor does appending a second one.
C6_StreakMonotone ==
    Loaded =>
        LET once == StreakOf(WithLaterLoss(trades))
        IN  /\ once >= Metrics.longestStreak
            /\ StreakOf(WithLaterLoss(WithLaterLoss(trades))) >= once

C6_Witness ==
    /\ Loaded
    /\ Metrics.longestStreak = 2
    /\ StreakOf(WithLaterLoss(trades)) = 2
    /\ StreakOf(WithLaterLoss(WithLaterLoss(trades))) = 2

\* C7: a loaded trade list without a losing closed trade renders the page
\* with totalLosses 0, longestStreak 0 and empty lossByPair and
\* recentLosses.
C7_NoLosses ==
    (tradesRes # Null /\ LosingAt(trades) = {}) =>
        /\ view = "page"
        /\ lossMetrics = Some([totalLosses |-> 0, longestStreak |-> 0,
                               lossByPair |-> <<>>, recentLosses |-> <<>>])

C7_Witness ==
    /\ Loaded
    /\ LosingAt(trades) = {}
    /\ \E i, j \in 1..Len(trades) :
          /\ ~Closed(trades[i])
          /\ trades[j].profit_loss = Some(0)
    /\ Metrics.totalLosses = 0

\* C8: rendering the page again over unchanged trades yields the same
\* totalLosses, longestStreak, lossByPair and recentLosses.
C8_Idempotent ==
    [][(view = "page" /\ view' = "page") => lossMetrics' = lossMetrics]_vars

C8_Witness ==
    /\ Loaded
    /\ rerendered
    /\ Len(Metrics.lossByPair) = 2
    /\ Metrics.lossByPair[1].total = Metrics.lossByPair[2].total
    /\ \E i, j \in 1..Len(trades) : i < j /\ ExitDay(trades[i]) > ExitDay(trades[j])

\* C9: calculateLossMetrics leaves the trades array of the component state
\* as it was received: same trades, same order, same fields.
C9_TradesUntouched ==
    view = "page" => trades = tradesRes[1]

C9_Witness ==
    /\ Loaded
    /\ rerendered
    /\ trades = tradesRes[1]
    /\ \E i, j \in LosingAt(trades) : i < j /\ ExitDay(trades[i]) < ExitDay(trades[j])
    /\ \E i, j \in ClosedAt(trades) : i < j /\ ExitDay(trades[i]) > ExitDay(trades[j])

-----------------------------------------------------------------------------
(* Properties of the goal progress                                         *)

\* C10: the progress of a goal is min(total_profit_loss / target_amount *
\* 100, 100): at most 100, exactly 100 once the profit reaches the target,
\* and below that the unclamped ratio, negative when the profit is.
C10_ProgressClamp ==
    \A k \in 1..Len(planView) :
      "target_amount" \in DOMAIN goals[k] =>
        LET p == planView[k].progress
            pl == planStats[1].total_profit_loss
            target == goals[k].target_amount
        IN  /\ p.den > 0
            /\ p.num <= 100 * p.den
            /\ pl >= target => p.num = 100 * p.den
            /\ pl < target => p.num * target = 100 * pl * p.den
            /\ pl < 0 => p.num < 0

C10_Witness ==
    /\ Len(planView) = 2
    /\ planStats[1].total_profit_loss = -1
    /\ goals[1].target_amount = 3
    /\ planView[1].progress.num * 3 = -100 * planView[1].progress.den
    /\ planView[2].progress.num < 0

-----------------------------------------------------------------------------
(* Properties of the goal status                                           *)

\* The profit the plan page holds.
PlanProfit == planStats[1].total_profit_loss

\* Goal k has a positive target and the profit has reached it.
TargetReached(k) ==
    /\ "target_amount" \in DOMAIN goals[k]
    /\ goals[k].target_amount > 0
    /\ PlanProfit >= goals[k].target_amount

\* Ticks from the instant getGoalStatus read to the target date of goal k.
TicksToTarget(k) == goals[k].target_date * DayLength - statusAt

Statuses == {"completed", "achieved", "expired", "urgent", "active"}

\* C11: getGoalStatus returns the first match in the order completed,
\* achieved (progress >= 100), expired (days left < 0), urgent (days left
\* <= 7), active, so every goal gets exactly one of the five statuses; a
\* goal not completed, at 40% and due in 5 days, is urgent.
C11_StatusPriority ==
    \A k \in 1..Len(planView) :
        LET s == planView[k].status
        IN  /\ s \in Statuses
            /\ s = "completed" <=> goals[k].completed
            /\ s = "achieved" <=> ~goals[k].completed /\ TargetReached(k)
            /\ s = "expired" <=>
                  /\ ~goals[k].completed /\ ~TargetReached(k)
                  /\ TicksToTarget(k) <= -DayLength
            /\ s = "urgent" <=>
                  /\ ~goals[k].completed /\ ~TargetReached(k)
                  /\ TicksToTarget(k) > -DayLength
                  /\ TicksToTarget(k) <= 7 * DayLength
            /\ (goals[k] = ScenarioGoal /\ PlanProfit = 400 /\ statusAt = 0)
                  => s = "urgent"

C11_Witness ==
    /\ goals = <<ScenarioGoal>>
    /\ Len(planView) = 1
    /\ PlanProfit = 400
    /\ statusAt = 0
    /\ planView[1].progress.num = 40 * planView[1].progress.den
    /\ planView[1].status = "urgent"

\* C12: a goal not completed whose positive target the profit has reached
\* shows progress exactly 100 and the status achieved, whatever its target
\* date, passed or not; target 1000 with profit 1200 is such a goal.
C12_AchievedWhateverDate ==
    \A k \in 1..Len(planView) :
        /\ (TargetReached(k) /\ ~goals[k].completed) =>
              /\ planView[k].progress.den > 0
              /\ planView[k].progress.num = 100 * planView[k].progress.den
              /\ planView[k].status = "achieved"
        /\ (goals[k] = ScenarioGoal /\ PlanProfit = 1200) =>
              planView[k].status = "achieved"

C12_Witness ==
    /\ Len(planView) = 1
    /\ goals[1].target_date = 0
    /\ statusAt >= DayLength
    /\ ~goals[1].completed
    /\ TargetReached(1)
    /\ planView[1].daysLeft < 0
    /\ planView[1].status = "achieved"

\* The midnight that began the browser's calendar day holding instant now.
LocalMidnight(now) ==
    ((now + utcOffset) \div DayLength) * DayLength - utcOffset

\* C13: the days left shown equal ceil((target_date - now) / 1 day) with now
\* cut down to the start of the calendar day, so that they stay the same
\* the whole calendar day.
C13_DaysLeftFromMidnight ==
    \A k \in 1..Len(planView) :
        planView[k].daysLeft =
            MathCeil(goals[k].target_date * DayLength - LocalMidnight(clock),
                     DayLength)

\* C18: the status and the days left shown on a goal card come from one and
\* the same instant, so they agree: expired goes with 0 days shown, urgent
\* with at most 7, active with more than 7.
C18_StatusAgreesWithDaysLeft ==
    \A k \in 1..Len(planView) :
        LET s == planView[k].status
            d == planView[k].daysShown
        IN  /\ s = "expired" => d = 0
            /\ s = "urgent" => d <= 7
            /\ s = "active" => d > 7

\* C19: a goal whose target_amount is missing gets no progress and no
\* status; the computation fails instead of a card being shown for it.
C19_MalformedTargetFails ==
    \A k \in 1..Len(planView) : "target_amount" \in DOMAIN goals[k]

-----------------------------------------------------------------------------
(* Properties of the Analytics page view                                   *)

Page == page[1]

Stats == stats[1]

\* The lines a rule wrote on the Loss Insights card.
LinesOf(rule) ==
    {i \in 1..Len(Page.insights) : Page.insights[i].rule = rule}

C15_PerfectRecordNeedsTrades ==
    (page # Null /\ Page.lossesTab = "perfectRecord") =>
        /\ view = "page"
        /\ stats # Null
        /\ tradesRes # Null
        /\ LosingAt(trades) = {}
        /\ trades # <<>>

\* C15: the Perfect Record card is shown exactly when stats and trades were
\* loaded and the trades hold no losing closed trade, an empty trade list
\* included; while loading and after a failed load no page is shown.
C15_PerfectRecordIffNoLoss ==
    /\ (page # Null /\ Page.lossesTab = "perfectRecord") <=>
          /\ view = "page"
          /\ stats # Null
          /\ tradesRes # Null
          /\ LosingAt(trades) = {}
    /\ view \in {"loading", "error"} => page = Null
    /\ tradesRes = Null => page = Null

C15_Witness ==
    /\ view = "page"
    /\ tradesRes = Some(<<>>)
    /\ Stats.total_trades = 0
    /\ Page.lossesTab = "perfectRecord"

\* Exactly one line cites stats.worst_trade.
OneWorstTradeLine ==
    /\ Cardinality(LinesOf("worstTrade")) = 1
    /\ \A i \in LinesOf("worstTrade") :
          Page.insights[i].amount = MathAbs(Stats.worst_trade)

\* C16 as stated: every page shows exactly one line citing
\* stats.worst_trade, whatever longestStreak, average_loss, lossByPair and
\* totalLosses are.
C16_WorstTradeLineAlways == view = "page" => OneWorstTradeLine

\* C16: whenever there is a losing trade the page shows exactly one line
\* citing stats.worst_trade, whatever longestStreak, average_loss and
\* lossByPair are; with no losing trade the Perfect Record card takes the
\* place of all insight lines.
C16_WorstTradeLineWithLosses ==
    view = "page" =>
        IF Metrics.totalLosses > 0
        THEN Page.lossesTab = "lossCards" /\ OneWorstTradeLine
        ELSE Page.lossesTab = "perfectRecord" /\ Page.insights = <<>>

C16_Witness ==
    /\ view = "page"
    /\ Metrics.totalLosses > 0
    /\ Metrics.longestStreak > 2
    /\ Stats.worst_trade = -1
    /\ Page.insights[1] = InsightLine("worstTrade", 1, "")
    /\ Cardinality(LinesOf("streak")) = 1

\* The profit_loss summed over the losing trades of pair p.
PairTotal(p) == SumProfitLossAt(trades, PairLosses(trades, p))

C20_WinsAndLosses ==
    view = "page" =>
        LET rate == Stats.win_rate
            wins == Page.winLossData[1].value
            losses == Page.winLossData[2].value
        IN  /\ rate.den > 0
            /\ rate.num >= 0
            /\ rate.num <= 100 * rate.den
            /\ Stats.total_trades = 0 => rate.num = 0
            /\ wins.den > 0 /\ wins.num >= 0
            /\ losses.den > 0 /\ losses.num >= 0
            /\ wins.num * losses.den + losses.num * wins.den =
                  Stats.total_trades * wins.den * losses.den

C20_Witness ==
    /\ view = "page"
    /\ Stats.total_trades = 3
    /\ Stats.win_rate = [num |-> 100, den |-> 2]
    /\ Page.winLossData[1].value.num * 2 = 3 * Page.winLossData[1].value.den
    /\ Page.winLossData[2].value.num * 2 = 3 * Page.winLossData[2].value.den

\* C25: whenever the Analytics page is past its loading view, stats is not
\* null, after a successful and after a failed load alike, so that no
\* render dereferences null.
C25_StatsLoadedWhenShown ==
    ~loading => (stats # Null /\ view = "page")

-----------------------------------------------------------------------------
(* App, Login, Register, Layout and Settings                               *)

PublicPaths == {"/login", "/register"}

ProtectedPaths == {"/", "/trades", "/trades/add", "/trades/:id", "/analytics"}

Paths == PublicPaths \union ProtectedPaths

\* The route table of App: where a visit of path ends.  /login and /register
\* show their form to a visitor who is not authenticated and redirect to /
\* otherwise; the other routes show Layout to an authenticated visitor and
\* redirect to /login otherwise.
RouteGuard(path, authenticated) ==
    IF path \in PublicPaths
    THEN IF ~authenticated THEN path ELSE "/"
    ELSE IF authenticated THEN path ELSE "/login"

FormPath(f) == IF f = "login" THEN "/login" ELSE "/register"

Forms == {"login", "register"}

authOthers ==
    <<analyticsVars, planVars, raceVars, dashVars, listVars, detailVars,
      addVars, mounted>>

\* The effect of App: isAuthenticated from the token in localStorage, then
\* the routes are rendered for the first time.
AppEffect ==
    /\ appLoading
    /\ isAuthenticated' = (token # Null)
    /\ appLoading' = FALSE
    /\ location' = RouteGuard(location, token # Null)
    /\ UNCHANGED <<token, storedUser, authForm, authRequest, authOthers>>

\* The visitor follows a link.  The page left is unmounted and its state
\* is lost; a request it made stays in flight.
FollowLink ==
    /\ ~appLoading
    /\ \E path \in Paths :
          /\ RouteGuard(path, isAuthenticated) # location
          /\ location' = RouteGuard(path, isAuthenticated)
    /\ authForm' = NoneLoading
    /\ UNCHANGED <<token, storedUser, isAuthenticated, appLoading,
                   authRequest, authOthers>>

\* handleSubmit of Login and of Register up to the await.
AuthSubmit(f) ==
    /\ ~appLoading
    /\ location = FormPath(f)
    /\ ~authForm[f]
    /\ authRequest[f] # "pending"
    /\ authForm' = [authForm EXCEPT ![f] = TRUE]
    /\ authRequest' = [authRequest EXCEPT ![f] = "pending"]
    /\ UNCHANGED <<token, storedUser, isAuthenticated, appLoading, location,
                   authOthers>>

\* handleSubmit after the request was fulfilled: token and user stored,
\* setAuth(true), navigate('/'), setLoading(false).
AuthFulfilled(f) ==
    /\ authRequest[f] = "pending"
    /\ authRequest' = [authRequest EXCEPT ![f] = "fulfilled"]
    /\ token' = Some("access_token")
    /\ storedUser' = Some("user")
    /\ isAuthenticated' = TRUE
    /\ location' = RouteGuard("/", TRUE)
    /\ authForm' = NoneLoading
    /\ UNCHANGED <<appLoading, authOthers>>

\* As AuthRejected, with setAuth(true) and navigate('/') in the finally
\* block.
AuthRejectedSignsIn(f) ==
    /\ authRequest[f] = "pending"
    /\ authRequest' = [authRequest EXCEPT ![f] = "rejected"]
    /\ isAuthenticated' = TRUE
    /\ location' = RouteGuard("/", TRUE)
    /\ authForm' = [authForm EXCEPT ![f] = FALSE]
    /\ UNCHANGED <<token, storedUser, appLoading, authOthers>>

\* handleSubmit after the request was rejected: the toast of the catch
\* block and setLoading(false).
AuthRejected(f) ==
    /\ authRequest[f] = "pending"
    /\ authRequest' = [authRequest EXCEPT ![f] = "rejected"]
    /\ authForm' = [authForm EXCEPT ![f] = FALSE]
    /\ UNCHANGED <<token, storedUser, isAuthenticated, appLoading, location,
                   authOthers>>

\* Layout.handleLogout: both keys removed, navigate('/login').  Layout has
\* no setter of isAuthenticated, so the route table is applied with the
\* value App holds.
HandleLogout ==
    /\ ~appLoading
    /\ isAuthenticated
    /\ location \in ProtectedPaths
    /\ token' = Null
    /\ storedUser' = Null
    /\ location' = RouteGuard("/login", isAuthenticated)
    /\ authForm' = NoneLoading
    /\ UNCHANGED <<isAuthenticated, appLoading, authRequest, authOthers>>

\* Settings.handleDeleteAccount up to the await.  Settings is shown to an
\* authenticated visitor.
DeleteSubmit ==
    /\ ~appLoading
    /\ isAuthenticated
    /\ ~authForm.settings
    /\ authRequest.settings # "pending"
    /\ authForm' = [authForm EXCEPT !.settings = TRUE]
    /\ authRequest' = [authRequest EXCEPT !.settings = "pending"]
    /\ UNCHANGED <<token, storedUser, isAuthenticated, appLoading, location,
                   authOthers>>

\* handleDeleteAccount after the DELETE was fulfilled: both keys removed,
\* navigate('/login'), setDeleteLoading(false).
DeleteFulfilled ==
    /\ authRequest.settings = "pending"
    /\ authRequest' = [authRequest EXCEPT !.settings = "fulfilled"]
    /\ token' = Null
    /\ storedUser' = Null
    /\ location' = RouteGuard("/login", isAuthenticated)
    /\ authForm' = NoneLoading
    /\ UNCHANGED <<isAuthenticated, appLoading, authOthers>>

\* handleDeleteAccount after the DELETE was rejected.
DeleteRejected ==
    /\ authRequest.settings = "pending"
    /\ authRequest' = [authRequest EXCEPT !.settings = "rejected"]
    /\ authForm' = [authForm EXCEPT !.settings = FALSE]
    /\ UNCHANGED <<token, storedUser, isAuthenticated, appLoading, location,
                   authOthers>>

\* The application is opened at any path, with or without the keys of an
\* earlier visit in localStorage.
AuthInit ==
    /\ AnalyticsInit /\ PlanIdle /\ utcOffset = 0
    /\ PagesIdle /\ AddIdle /\ mounted = "app"
    /\ \/ token = Null /\ storedUser = Null
       \/ token = Some("access_token") /\ storedUser = Some("user")
    /\ isAuthenticated = FALSE
    /\ appLoading = TRUE
    /\ location \in Paths
    /\ authForm = NoneLoading
    /\ authRequest = NoRequests

AuthNext ==
    \/ AppEffect
    \/ FollowLink
    \/ \E f \in Forms : AuthSubmit(f) \/ AuthFulfilled(f) \/ AuthRejected(f)
    \/ HandleLogout
    \/ DeleteSubmit
    \/ DeleteFulfilled
    \/ DeleteRejected

SpecAuth == AuthInit /\ [][AuthNext]_vars

-----------------------------------------------------------------------------
(* AddTrade                                                                *)

\* Most runs of handleSubmit that are followed.
MaxSubmits == 3

addOthers ==
    <<analyticsVars, planVars, raceVars, dashVars, listVars, detailVars,
      token, storedUser, isAuthenticated, appLoading, authForm, authRequest,
      mounted>>

\* handleFileChange with a file chosen.  The input is not disabled while
\* handleSubmit runs.
HandleFileChange ==
    /\ location = "/trades/add"
    /\ screenshot = Null
    /\ screenshot' = Some("screenshot.png")
    /\ UNCHANGED <<addLoading, uploadingScreenshot, addStep, serverTrades,
                   uploads, addToast, location, addOthers>>

\* handleSubmit up to the await of POST /trades.  The button is disabled
\* while loading or uploadingScreenshot; the closure keeps the screenshot
\* of the render it was made in.
HandleSubmit ==
    /\ location = "/trades/add"
    /\ ~(addLoading \/ uploadingScreenshot)
    /\ Len(addToast) < MaxSubmits
    /\ addLoading' = TRUE
    /\ addStep' = [at |-> "creating", screenshot |-> screenshot]
    /\ UNCHANGED <<uploadingScreenshot, screenshot, serverTrades, uploads,
                   addToast, location, addOthers>>

\* The end of handleSubmit: the toast, navigate('/trades') after the
\* success toast, and the finally block.
Finish(kind) ==
    /\ addToast' = Append(addToast, kind)
    /\ location' = IF kind = "success"
                   THEN RouteGuard("/trades", isAuthenticated)
                   ELSE location
    /\ addLoading' = FALSE
    /\ uploadingScreenshot' = FALSE
    /\ addStep' = Idle

\* POST /trades fulfilled: the server holds the new trade.  With upload
\* the screenshot is posted to the id of the response and handleSubmit
\* waits again; without, handleSubmit ends.
CreateDone(upload) ==
    /\ LET id == Len(serverTrades) + 1
       IN  /\ serverTrades' = Append(serverTrades, [id |-> id])
           /\ IF upload
              THEN /\ uploadingScreenshot' = TRUE
                   /\ uploads' = Append(uploads,
                                        [id |-> id, status |-> "pending"])
                   /\ addStep' = [addStep EXCEPT !.at = "uploading"]
                   /\ UNCHANGED <<addLoading, addToast, location>>
              ELSE /\ Finish("success")
                   /\ UNCHANGED uploads
    /\ UNCHANGED <<screenshot, addOthers>>

\* As CreateFulfilled, the screenshot posted whether one was chosen or not.
CreateFulfilledAlwaysUploads ==
    /\ addStep.at = "creating"
    /\ CreateDone(TRUE)

\* handleSubmit after POST /trades was fulfilled: if (screenshot).
CreateFulfilled ==
    /\ addStep.at = "creating"
    /\ CreateDone(addStep.screenshot # Null)

\* POST /trades rejected: the server holds no new trade.
CreateRejected ==
    /\ addStep.at = "creating"
    /\ Finish("error")
    /\ UNCHANGED <<screenshot, serverTrades, uploads, addOthers>>

Settle(requests, status) ==
    [requests EXCEPT ![Len(requests)].status = status]

\* The upload fulfilled.
UploadFulfilled ==
    /\ addStep.at = "uploading"
    /\ uploads' = Settle(uploads, "fulfilled")
    /\ Finish("success")
    /\ UNCHANGED <<screenshot, serverTrades, addOthers>>

\* The upload rejected: the catch block shows the same toast as for a
\* rejected POST /trades; the trade stays on the server.
UploadRejected ==
    /\ addStep.at = "uploading"
    /\ uploads' = Settle(uploads, "rejected")
    /\ Finish("error")
    /\ UNCHANGED <<screenshot, serverTrades, addOthers>>

\* The visitor comes back from the trade list: AddTrade is constructed
\* again.
AddAnother ==
    /\ location = "/trades"
    /\ location' = RouteGuard("/trades/add", isAuthenticated)
    /\ screenshot' = Null
    /\ UNCHANGED <<addLoading, uploadingScreenshot, addStep, serverTrades,
                   uploads, addToast, addOthers>>

\* A signed-in visitor opens /trades/add.
AddInit ==
    /\ AnalyticsInit /\ PlanIdle /\ utcOffset = 0
    /\ PagesIdle /\ AddIdle /\ mounted = "add"
    /\ token = Some("access_token") /\ storedUser = Some("user")
    /\ isAuthenticated = TRUE
    /\ appLoading = FALSE
    /\ location = "/trades/add"
    /\ authForm = NoneLoading
    /\ authRequest = NoRequests

AddNext ==
    \/ HandleFileChange
    \/ HandleSubmit
    \/ CreateFulfilled
    \/ CreateRejected
    \/ UploadFulfilled
    \/ UploadRejected
    \/ AddAnother

SpecAdd == AddInit /\ [][AddNext]_vars

-----------------------------------------------------------------------------
(* Properties of the page loads                                            *)

BothFulfilled == <<"fulfilled", "fulfilled">>

\* C21: on the Analytics, TradingPlan and Dashboard pages stats and the
\* companion list are set only when both requests of fetchData were
\* fulfilled; when either was rejected both keep their initial values.
C21_AllOrNothing ==
    /\ IF fetchOutcome = BothFulfilled
       THEN stats # Null /\ tradesRes # Null
       ELSE stats = Null /\ trades = <<>> /\ tradesRes = Null
    /\ IF planOutcome = BothFulfilled
       THEN planStats # Null
       ELSE planStats = Null /\ goals = <<>>
    /\ IF dashOutcome = BothFulfilled
       THEN dashStats # Null
       ELSE dashStats = Null /\ equityCurve = <<>>

C21_Witness ==
    /\ dashOutcome = <<"fulfilled", "rejected">>
    /\ ~dashLoading
    /\ dashStats = Null
    /\ equityCurve = <<>>

\* The loading flag of each data page is false exactly when the requests
\* made at its mount have settled.
LoadingIffPending ==
    /\ loading <=> fetchOutcome = Pending
    /\ planLoading <=> planOutcome = Pending
    /\ dashLoading <=> dashOutcome = Pending
    /\ listLoading <=> listOutcome = "pending"
    /\ detailLoading <=> detailOutcome = "pending"

\* No loading flag goes from false to true.
NeverLoadingAgain ==
    /\ ~loading => ~loading'
    /\ ~planLoading => ~planLoading'
    /\ ~dashLoading => ~dashLoading'
    /\ ~listLoading => ~listLoading'
    /\ ~detailLoading => ~detailLoading'

\* C26: on every data page loading starts true, is false once the requests
\* made at the mount have settled, fulfilled or rejected, and is never set
\* back to true.
C26_LoadingEnds == []LoadingIffPending /\ [][NeverLoadingAgain]_vars

C26_Witness ==
    /\ detailOutcome = "rejected"
    /\ ~detailLoading
    /\ mounted = "trades"
    /\ listOutcome = "rejected"
    /\ ~listLoading

\* The places in listTrades of the trades whose pair or whose strategy, if
\* it has one, contains term with the case of the letters left aside.
SameLetter(a, b) == LowerLetter(a) = LowerLetter(b)

Contains(text, part) ==
    \E i \in 0..(Len(text) - Len(part)) :
        \A j \in 1..Len(part) : SameLetter(text[i + j], part[j])

Found(term) ==
    {i \in 1..Len(listTrades) :
        \/ Contains(listTrades[i].currency_pair, term)
        \/ /\ listTrades[i].strategy # Null
           /\ Contains(listTrades[i].strategy[1], term)}

\* C29: filteredTrades is the sub-list of trades, in their order, whose
\* currency_pair or non-null strategy contains the search term whatever
\* the case of the letters; with the empty term it is trades itself.
C29_FilteredTrades ==
    /\ Len(filteredTrades) = Cardinality(Found(searchTerm))
    /\ \A i \in Found(searchTerm) :
          filteredTrades[Cardinality({j \in Found(searchTerm) : j <= i})] =
              listTrades[i]
    /\ searchTerm = <<>> => filteredTrades = listTrades

C29_Witness ==
    /\ searchTerm = <<"E", "u">>
    /\ Len(listTrades) = 2
    /\ listTrades[1].currency_pair = <<"G", "U">>
    /\ listTrades[1].strategy = Null
    /\ listTrades[2].currency_pair = <<"E", "U">>
    /\ filteredTrades = <<listTrades[2]>>

-----------------------------------------------------------------------------
(* Properties of the authentication                                        *)

\* C22: once the effect of App has run, isAuthenticated is true exactly
\* when localStorage holds a token, through login, registration, logout
\* and account deletion.
C22_AuthenticatedIffToken ==
    ~appLoading => (isAuthenticated <=> token # Null)

\* C23: handleLogout leaves the visitor on the login page, and while no
\* token has been stored again no page under Layout is shown.
C23_LogoutEndsOnLogin ==
    /\ [][HandleLogout => location' = "/login"]_vars
    /\ [](~appLoading /\ token = Null => location \notin ProtectedPaths)

\* A request of the login or registration form is rejected in this step.
Rejects(f) == authRequest[f] = "pending" /\ authRequest'[f] = "rejected"

\* C24: a rejected login or registration writes no token and no user,
\* leaves isAuthenticated and the location as they were, and ends with the
\* loading flag of the form false.
C24_FailedSignInChangesNothing ==
    [][\A f \in Forms :
          Rejects(f) =>
              /\ UNCHANGED <<token, storedUser, isAuthenticated, location>>
              /\ ~authForm'[f]]_vars

C24_Witness ==
    /\ authRequest.login = "rejected"
    /\ authRequest.register = "rejected"
    /\ token = Null
    /\ storedUser = Null
    /\ ~isAuthenticated
    /\ location = "/register"
    /\ ~authForm.register

-----------------------------------------------------------------------------
(* Properties of AddTrade                                                  *)

Last(seq) == seq[Len(seq)]

\* An upload is requested in this step.
Uploads == Len(uploads') = Len(uploads) + 1

\* handleSubmit shows its success toast in this step.
Succeeds == Len(addToast') = Len(addToast) + 1 /\ Last(addToast') = "success"

\* C27: the screenshot upload is requested only in the step POST /trades is
\* fulfilled, for the trade that step created, and only with a screenshot
\* chosen; the success toast and the navigation to /trades come only when
\* every request made was fulfilled; handleSubmit always ends with loading
\* and uploadingScreenshot false.
C27_SubmitOrder ==
    /\ [][/\ Uploads =>
                /\ addStep.at = "creating"
                /\ addStep.screenshot # Null
                /\ Len(serverTrades') = Len(serverTrades) + 1
                /\ Last(uploads').id = Last(serverTrades').id
          /\ Succeeds =>
                \/ /\ addStep.at = "creating"
                   /\ Len(serverTrades') = Len(serverTrades) + 1
                   /\ ~Uploads
                \/ /\ addStep.at = "uploading"
                   /\ Last(uploads') =
                          [id |-> Last(serverTrades).id,
                           status |-> "fulfilled"]
          /\ (location = "/trades/add" /\ location' = "/trades") => Succeeds
       ]_vars
    /\ [](addStep = Idle => ~addLoading /\ ~uploadingScreenshot)

C27_Witness ==
    /\ addStep = Idle
    /\ Len(addToast) = 2
    /\ addToast[1] = "error"
    /\ addToast[2] = "success"
    /\ Len(uploads) = 2
    /\ uploads[2] = [id |-> 2, status |-> "fulfilled"]
    /\ location = "/trades"
    /\ ~addLoading /\ ~uploadingScreenshot

Successes == {k \in 1..Len(addToast) : addToast[k] = "success"}

\* C28: each submission that ended with the failure toast created no trade
\* on the server: while handleSubmit is not running the server holds as
\* many trades as submissions were reported successful.
C28_FailureCreatesNothing ==
    addStep = Idle => Len(serverTrades) = Cardinality(Successes)

-----------------------------------------------------------------------------
(* Properties of the overlapping fetches                                   *)

AllArrived == \A k \in 1..Len(fetches) : fetches[k].status = "fulfilled"

\* C30: once the responses of all calls of fetchData have arrived, the
\* goals and stats shown are those of the call made last, not those of an
\* earlier call whose response arrived after it.
C30_LatestFetchShown ==
    AllArrived =>
        /\ goals = fetches[Len(fetches)].goals
        /\ planStats = Some(fetches[Len(fetches)].stats)

====
